---- MODULE Spec2Model ----
(***************************************************************************)
(* BOOKSHELF (src/app.py): a Flask application over an SQLite store with   *)
(* three tables (users, books, reviews).  The model covers the store,      *)
(* registration, the review submission handler book_detail (POST) and the  *)
(* recommendation selector get_recommendations, statement by statement.    *)
(*                                                                         *)
(* The review_text column, password hashes and page rendering take no part *)
(* in any modelled decision and are left out of the rows.                  *)
(***************************************************************************)
EXTENDS Integers, Sequences, FiniteSets, Bags, TLC

VARIABLES users, reviews, seq, handlers, lingering, response

vars == <<users, reviews, seq, handlers, lingering, response>>

----------------------------------------------------------------------------
(* Bounds of the model *)

\* Number of requests that may be in flight at once.
MaxHandlers == 2

----------------------------------------------------------------------------
(* Program constants *)

\* WHERE ... r.rating >= 4
HighRating == 4

\* favorite_genres: LIMIT 3
GenreLimit == 3

\* the three ranking queries: LIMIT 5
ResultLimit == 5

\* if not (1 <= rating <= 5)
MinRating == 1
MaxRating == 5

----------------------------------------------------------------------------
(* Text: the code points of the strings the store compares (titles in       *)
(* ORDER BY b.title, genres in GROUP BY b.genre), SQLite's BINARY collation *)
(* comparing them byte by byte.                                             *)

Text ==
    "The Shadow of the Wind" :>
        <<84, 104, 101, 32, 83, 104, 97, 100, 111, 119, 32, 111, 102, 32, 116, 104, 101, 32, 87, 105, 110, 100>> @@
    "The Martian" :>
        <<84, 104, 101, 32, 77, 97, 114, 116, 105, 97, 110>> @@
    "A Gentleman in Moscow" :>
        <<65, 32, 71, 101, 110, 116, 108, 101, 109, 97, 110, 32, 105, 110, 32, 77, 111, 115, 99, 111, 119>> @@
    "Project Hail Mary" :>
        <<80, 114, 111, 106, 101, 99, 116, 32, 72, 97, 105, 108, 32, 77, 97, 114, 121>> @@
    "Where the Crawdads Sing" :>
        <<87, 104, 101, 114, 101, 32, 116, 104, 101, 32, 67, 114, 97, 119, 100, 97, 100, 115, 32, 83, 105, 110, 103>> @@
    "Sapiens: A Brief History of Humankind" :>
        <<83, 97, 112, 105, 101, 110, 115, 58, 32, 65, 32, 66, 114, 105, 101, 102, 32, 72, 105, 115, 116, 111, 114, 121, 32, 111, 102, 32, 72, 117, 109, 97, 110, 107, 105, 110, 100>> @@
    "Mystery" :>
        <<77, 121, 115, 116, 101, 114, 121>> @@
    "Sci-Fi" :>
        <<83, 99, 105, 45, 70, 105>> @@
    "Historical Fiction" :>
        <<72, 105, 115, 116, 111, 114, 105, 99, 97, 108, 32, 70, 105, 99, 116, 105, 111, 110>> @@
    "Non-Fiction" :>
        <<78, 111, 110, 45, 70, 105, 99, 116, 105, 111, 110>>

\* Byte-wise comparison of two code point sequences (memcmp, then length).
RECURSIVE SeqLess(_, _)
SeqLess(a, b) ==
    IF b = <<>> THEN FALSE
    ELSE IF a = <<>> THEN TRUE
    ELSE IF Head(a) # Head(b) THEN Head(a) < Head(b)
    ELSE SeqLess(Tail(a), Tail(b))

\* s sorts before t under the BINARY collation.
TextLess(s, t) == SeqLess(Text[s], Text[t])

----------------------------------------------------------------------------
(* The catalog: init_db seeds six books; no handler inserts, updates or     *)
(* deletes a row of books, and AUTOINCREMENT numbers them 1..6 in order.    *)

sample_books ==
    <<[title |-> "The Shadow of the Wind", genre |-> "Mystery"],
      [title |-> "The Martian", genre |-> "Sci-Fi"],
      [title |-> "A Gentleman in Moscow", genre |-> "Historical Fiction"],
      [title |-> "Project Hail Mary", genre |-> "Sci-Fi"],
      [title |-> "Where the Crawdads Sing", genre |-> "Mystery"],
      [title |-> "Sapiens: A Brief History of Humankind", genre |-> "Non-Fiction"]>>

\* The ids of the rows of books.
books == DOMAIN sample_books

title(b) == sample_books[b].title
genre(b) == sample_books[b].genre

\* The rank of each title in ascending title order (0 for the first).
TitleRank == [b \in books |-> Cardinality({c \in books : TextLess(title(c), title(b))})]

\* The rank of each genre in ascending genre order (0 for the first).
GenreRank ==
    [g \in {genre(b) : b \in books} |->
        Cardinality({h \in {genre(b) : b \in books} : TextLess(h, g)})]

----------------------------------------------------------------------------
(* Aggregates of the reviews table.  A row of reviews is                    *)
(* [id, user_id, book_id, rating].                                          *)

RECURSIVE SumRating(_)
SumRating(rows) ==
    IF rows = {} THEN 0
    ELSE LET r == CHOOSE x \in rows : TRUE
         IN r.rating + SumRating(rows \ {r})

\* AVG(r.rating) of books b LEFT JOIN reviews r ... GROUP BY b.id: the sum and
\* the number of the ratings of book b; n = 0 is SQL's NULL average.
avg_rating(table, b) ==
    LET rows == {r \in table : r.book_id = b}
    IN [n |-> Cardinality(rows), sum |-> SumRating(rows)]

IsNull(a) == a.n = 0

\* Two averages are the same value (NULL = NULL for the purpose of sorting).
AvgEqual(a, b) ==
    IF IsNull(a) \/ IsNull(b) THEN IsNull(a) /\ IsNull(b)
    ELSE a.sum * b.n = b.sum * a.n

\* ORDER BY avg_rating DESC with the NULL averages first, as under an engine
\* that takes NULL as the largest value.
AvgBefore_nulls_first(a, b) ==
    IF IsNull(a) \/ IsNull(b) THEN IsNull(a) /\ ~IsNull(b)
    ELSE a.sum * b.n > b.sum * a.n

\* a comes before b under ORDER BY avg_rating DESC: SQLite takes NULL as the
\* smallest value, so under DESC the NULL averages come last.
AvgBefore(a, b) ==
    /\ ~IsNull(a)
    /\ IsNull(b) \/ a.sum * b.n > b.sum * a.n

\* The sequence of the elements of S in the strict total order before, a set
\* of pairs <<x, y>> with x ahead of y.
OrderBy(S, before) ==
    LET placed == {<<Cardinality({y \in S : <<y, x>> \in before}) + 1, x>> : x \in S}
    IN [i \in 1..Cardinality(S) |-> (CHOOSE p \in placed : p[1] = i)[2]]

\* LIMIT n
Limit(s, n) == SubSeq(s, 1, IF Len(s) < n THEN Len(s) ELSE n)

\* The elements of a sequence.
Range(s) == {s[i] : i \in DOMAIN s}

----------------------------------------------------------------------------
(* get_recommendations: the recommendation selector and its queries.        *)

\* reviews r JOIN books b ON r.book_id = b.id WHERE r.user_id = ? AND r.rating >= 4
HighRated(table, user_id) ==
    {r \in table : r.user_id = user_id /\ r.rating >= HighRating /\ r.book_id \in books}

\* SELECT b.genre ... GROUP BY b.genre: one row [genre, count] for each genre
\* among the user's high ratings, count being COUNT(b.genre).
GenreGroups(table, user_id) ==
    LET high == HighRated(table, user_id)
    IN {[genre |-> g, count |-> Cardinality({r \in high : genre(r.book_id) = g})] :
           g \in {genre(r.book_id) : r \in high}}

\* ORDER BY COUNT(b.genre) ASC: the least frequent genres first.
ByCount_ascending(x, y) ==
    \/ x.count < y.count
    \/ x.count = y.count /\ GenreRank[x.genre] > GenreRank[y.genre]

\* ORDER BY COUNT(b.genre) DESC.  The statement names no order among genres of
\* equal count; SQLite returns them in descending genre order.
ByCount(x, y) ==
    \/ x.count > y.count
    \/ x.count = y.count /\ GenreRank[x.genre] > GenreRank[y.genre]

\* favorite_genres ... LIMIT 3, and genres = [g['genre'] for g in favorite_genres]
favorite_genres(table, user_id) ==
    LET groups == GenreGroups(table, user_id)
        top == Limit(OrderBy(groups, {p \in groups \X groups : ByCount(p[1], p[2])}), GenreLimit)
    IN [i \in DOMAIN top |-> top[i].genre]

\* SELECT book_id FROM reviews WHERE user_id = ?
reviewed_book_ids(table, user_id) == {r.book_id : r \in {x \in table : x.user_id = user_id}}

\* SELECT b.*, AVG(r.rating) as avg_rating FROM books b LEFT JOIN reviews r
\* ON b.id = r.book_id [WHERE ...] GROUP BY b.id: one row for each book of ids
\* (the id stands for the row b.*).
BookRows(table, ids) ==
    {[id |-> b, avg_rating |-> avg_rating(table, b)] : b \in ids}

\* ORDER BY avg_rating DESC.  Books of equal average leave the sorter in the
\* order of the scan of books, ascending id.
ByAverage(x, y) ==
    \/ AvgBefore(x.avg_rating, y.avg_rating)
    \/ AvgEqual(x.avg_rating, y.avg_rating) /\ x.id < y.id

\* ORDER BY avg_rating DESC alone: equal averages stay in scan order.
ByAverage_without_title(x, y) ==
    \/ AvgBefore(x.avg_rating, y.avg_rating)
    \/ AvgEqual(x.avg_rating, y.avg_rating) /\ x.id < y.id

\* ORDER BY avg_rating DESC, b.title ASC
ByAverageThenTitle(x, y) ==
    \/ AvgBefore(x.avg_rating, y.avg_rating)
    \/ /\ AvgEqual(x.avg_rating, y.avg_rating)
       /\ \/ TitleRank[x.id] < TitleRank[y.id]
          \/ TitleRank[x.id] = TitleRank[y.id] /\ x.id < y.id

\* The query of the "no high ratings" branch without its LIMIT.
global_top_unlimited(table) ==
    LET rows == BookRows(table, books)
    IN OrderBy(rows, {p \in rows \X rows : ByAverage(p[1], p[2])})

\* The query of the "no high ratings" branch: every book, LIMIT 5.
global_top(table) ==
    LET rows == BookRows(table, books)
    IN Limit(OrderBy(rows, {p \in rows \X rows : ByAverage(p[1], p[2])}), ResultLimit)

\* recommendation_query without the NOT IN clause.
recommendations_keeps_reviewed(table, genres, reviewed) ==
    LET pool == {b \in books : genre(b) \in Range(genres)}
        rows == BookRows(table, pool)
    IN Limit(OrderBy(rows, {p \in rows \X rows : ByAverageThenTitle(p[1], p[2])}), ResultLimit)

\* recommendation_query: WHERE b.genre IN (genres) [AND b.id NOT IN (reviewed)]
\* ... LIMIT 5
recommendations(table, genres, reviewed) ==
    LET pool == {b \in books :
                    /\ genre(b) \in Range(genres)
                    /\ reviewed # {} => b \notin reviewed}
        rows == BookRows(table, pool)
    IN Limit(OrderBy(rows, {p \in rows \X rows : ByAverageThenTitle(p[1], p[2])}), ResultLimit)

\* The fallback statement is a plain string, not an f-string: SQLite receives
\* "WHERE b.id NOT IN ({exclusion_placeholders})" and refuses the "{" with
\* sqlite3.OperationalError, which get_recommendations does not catch.
exhausted_fallback(table, reviewed) ==
    [status |-> "error", error |-> "sqlite3.OperationalError", rows |-> <<>>]

Returned(rows) == [status |-> "ok", error |-> "", rows |-> rows]

\* get_recommendations when every statement of the call reads the same table.
get_recommendations(table, user_id) ==
    LET genres == favorite_genres(table, user_id)
    IN IF genres = <<>>
       THEN Returned(global_top(table))
       ELSE LET reviewed == reviewed_book_ids(table, user_id)
                found == recommendations(table, genres, reviewed)
            IN IF found = <<>>
               THEN exhausted_fallback(table, reviewed)
               ELSE Returned(found)

----------------------------------------------------------------------------
(* Requests.  current_user is whatever the session of the request resolves  *)
(* to: a registered account or Flask-Login's anonymous user.                *)

Usernames == {"ann", "bob"}

AnonymousUser == [is_authenticated |-> FALSE, id |-> 0]

CurrentUsers ==
    {AnonymousUser} \cup {[is_authenticated |-> TRUE, id |-> u.id] : u \in users}

\* The book ids of the requests: two books of the catalog and one id that is
\* no book.
BookIds == {2, 4, Cardinality(books) + 1}

\* The 'rating' field of the posted form: absent, not a number, or a number.
FormRatings ==
    {[kind |-> "missing", value |-> 0], [kind |-> "text", value |-> 0]}
        \cup {[kind |-> "int", value |-> v] : v \in {0, 3, 4, 6}}

\* The user ids get_recommendations is called with: every account id the
\* users table can hold and one more, which is never an account.
UserIds == 1..(Cardinality(Usernames) + 1)

\* request.form.get('rating', type=int): None unless the field is an integer.
FormInt(form) ==
    IF form.kind = "int"
    THEN [is_none |-> FALSE, value |-> form.value]
    ELSE [is_none |-> TRUE, value |-> 0]

NoReview == [found |-> FALSE, id |-> 0]

\* SELECT * FROM reviews WHERE user_id = ? AND book_id = ? ... fetchone(),
\* run only for an authenticated user.
user_review(table, cu, book_id) ==
    LET rows == {r \in table : r.user_id = cu.id /\ r.book_id = book_id}
    IN IF cu.is_authenticated /\ rows # {}
       THEN [found |-> TRUE,
             id |-> (CHOOSE r \in rows : \A x \in rows : r.id <= x.id).id]
       ELSE NoReview

NoResult == [status |-> "none", error |-> "", rows |-> <<>>]

\* What a handler leaves behind.  For get_recommendations: the user id, the
\* genres it selected, the outcome, and whether no write changed reviews
\* between the first and the last statement of the call (undisturbed).
Response(handler, flash) ==
    [handler |-> handler, flash |-> flash, user_id |-> 0, genres |-> <<>>,
     out |-> NoResult, undisturbed |-> FALSE]

\* rating <= 5 alone
ValidRating_upper_only(v) == v <= MaxRating

\* 1 <= rating <= 5
ValidRating(v) == MinRating <= v /\ v <= MaxRating

\* UNIQUE (user_id, book_id): an INSERT of a second row for the pair fails.
UniqueViolation(table, user_id, book_id) ==
    \E r \in table : r.user_id = user_id /\ r.book_id = book_id

\* The checks that open the POST branch of book_detail and touch no table:
\* the message of the one that turns the request down, "" when none does.
post_rejection(cu, form) ==
    LET rating == FormInt(form)
    IN IF ~cu.is_authenticated
         THEN "You must be logged in to submit a review."
       ELSE IF rating.is_none
         \* 1 <= None raises TypeError outside the try block: status 500
         THEN "TypeError"
       ELSE IF ~ValidRating(rating.value)
         THEN "Rating must be between 1 and 5."
       ELSE ""

\* The write statement of the try block of the POST branch, given the
\* user_review read before it: the table and the AUTOINCREMENT counter as the
\* commit will leave them, the message, and what the request does next.
\* "commit": the statement opened a transaction, which holds the write lock
\* of the database until db.commit().  "close": the INSERT failed on the
\* UNIQUE constraint inside the transaction it opened, which holds the lock
\* until the connection is closed.  "done": nothing is left open.  locked:
\* another connection holds the write lock for longer than the timeout of
\* sqlite3.connect, and the statement raises sqlite3.OperationalError, caught
\* by "except Exception".
post_write(table, last, cu, book_id, form, ur, locked) ==
    LET rating == FormInt(form)
    IN IF locked
         THEN [reviews |-> table, seq |-> last, pc |-> "done",
               flash |-> "An unexpected error occurred: database is locked"]
       ELSE IF ur.found
         \* UPDATE reviews SET rating = ? WHERE id = ?
         THEN [reviews |-> {IF r.id = ur.id THEN [r EXCEPT !.rating = rating.value] ELSE r :
                              r \in table},
               seq |-> last, pc |-> "commit",
               flash |-> "Your review has been updated!"]
       ELSE IF UniqueViolation(table, cu.id, book_id)
         \* sqlite3.IntegrityError, nothing committed
         THEN [reviews |-> table, seq |-> last, pc |-> "close",
               flash |-> "Error submitting review. You may have already reviewed this book."]
       ELSE [reviews |-> table \cup {[id |-> last + 1, user_id |-> cu.id,
                                      book_id |-> book_id, rating |-> rating.value]},
             seq |-> last + 1, pc |-> "commit",
             flash |-> "Your review has been submitted!"]

\* The POST branch of book_detail served with no other request in flight:
\* the table, the AUTOINCREMENT counter and the message it leaves.
post_review(table, last, cu, book_id, form, ur) ==
    IF post_rejection(cu, form) # ""
    THEN [reviews |-> table, seq |-> last, flash |-> post_rejection(cu, form)]
    ELSE LET res == post_write(table, last, cu, book_id, form, ur, FALSE)
         IN [reviews |-> res.reviews, seq |-> res.seq, flash |-> res.flash]

\* SELECT id FROM users WHERE username = ? ... fetchone() finds a row.
username_taken(table, username) == \E u \in table : u.username = username

\* username TEXT UNIQUE: an INSERT of a second row with the name fails.
UniqueUsernameViolation(table, username) == \E u \in table : u.username = username

\* A request in flight keeps what it has read so far, and written holds the
\* outcome of its write statement until the commit.  pc names the statement
\* it runs next: "insert" and "register_commit" (register), "post" and
\* "commit" (book_detail), "close" (close_connection after the failed INSERT
\* of book_detail), "close_raised" (close_connection after the failed INSERT
\* of register, whose exception is still alive), "global", "reviewed" and
\* "query" (get_recommendations).  undisturbed is
\* not a variable of the code: it records, for a call of get_recommendations,
\* that no write has changed reviews since the first statement of the call.
Request == [pc |-> "new", cu |-> AnonymousUser, book_id |-> 0,
            form |-> [kind |-> "missing", value |-> 0], user_review |-> NoReview,
            username |-> "", user_id |-> 0, favorite_genres |-> <<>>,
            reviewed_book_ids |-> {}, undisturbed |-> TRUE,
            written |-> [reviews |-> {}, seq |-> 0, pc |-> "new", flash |-> ""]]

----------------------------------------------------------------------------
(* State: the users and reviews tables, the AUTOINCREMENT counter of        *)
(* reviews, the requests in flight (a bag: two requests may be alike), the  *)
(* last response, and lingering: a connection that has been closed still    *)
(* holds the write lock.  Requests are served concurrently, one connection  *)
(* each (sqlite3.connect with its default timeout of 5 s).  A step is one   *)
(* source statement that reaches the database, with the local code up to    *)
(* the next one, and the steps of different requests interleave.  Reads run *)
(* in autocommit; an INSERT or UPDATE opens a transaction that holds the    *)
(* write lock of the database until the commit or, when the statement       *)
(* fails on a constraint, until the connection is really closed: db.close() *)
(* closes it at once when no cursor of the connection is referenced any     *)
(* more (book_detail, whose cursors are temporaries and whose except arms   *)
(* drop the exception), and otherwise only when the last cursor is freed    *)
(* (register, whose local cursor is kept by the frame of the exception that *)
(* leaves the handler).                                                     *)

InFlight == BagToSet(handlers)

\* One more request can be taken up.
Free == BagCardinality(handlers) < MaxHandlers

\* The requests in flight when request r has become request q.
Moved(r, q) == (handlers (-) SetToBag({r})) (+) SetToBag({q})

\* The requests in flight when request r has been answered.
Answered(r) == handlers (-) SetToBag({r})

\* A connection holds the write lock (never that of a request about to
\* write): that of a request between its write statement and its commit or
\* close, or a closed connection whose cursor is still referenced.
WriteLocked ==
    \/ lingering
    \/ \E q \in InFlight : q.pc \in {"commit", "register_commit", "close", "close_raised"}

Init ==
    /\ users = {}
    /\ reviews = {}
    /\ seq = 0
    /\ handlers = EmptyBag
    /\ lingering = FALSE
    /\ response = Response("init_db", "")

\* POST /register up to the SELECT that looks the name up.
register_check(cu, username) ==
    /\ Free
    /\ IF cu.is_authenticated
       THEN /\ response' = Response("register", "redirect")
            /\ UNCHANGED handlers
       ELSE IF username_taken(users, username)
       THEN /\ response' = Response("register",
                    "Username already taken. Please choose a different one.")
            /\ UNCHANGED handlers
       ELSE /\ handlers' = handlers (+) SetToBag({
                  [Request EXCEPT !.pc = "insert", !.username = username]})
            /\ UNCHANGED response
    /\ UNCHANGED <<users, reviews, seq, lingering>>

\* The INSERT of register.  Nothing catches its errors (status 500): the
\* sqlite3.OperationalError of a write lock held elsewhere for longer than
\* the timeout, and the sqlite3.IntegrityError of a name inserted since the
\* check, which leaves the transaction of the INSERT open and the local
\* cursor referenced by the traceback of the exception.
register_insert(r) ==
    /\ r.pc = "insert"
    /\ IF WriteLocked
       THEN /\ response' = Response("register", "sqlite3.OperationalError")
            /\ handlers' = Answered(r)
       ELSE IF UniqueUsernameViolation(users, r.username)
       THEN /\ response' = Response("register", "sqlite3.IntegrityError")
            /\ handlers' = Moved(r, [Request EXCEPT !.pc = "close_raised"])
       ELSE /\ handlers' = Moved(r, [r EXCEPT !.pc = "register_commit"])
            /\ UNCHANGED response
    /\ UNCHANGED <<users, reviews, seq, lingering>>

\* db.commit() of register: the row becomes visible and the lock is released.
register_commit(r) ==
    /\ r.pc = "register_commit"
    /\ users' = users \cup {[id |-> Cardinality(users) + 1, username |-> r.username]}
    /\ response' = Response("register", "Registration successful! Please log in.")
    /\ handlers' = Answered(r)
    /\ UNCHANGED <<reviews, seq, lingering>>

\* close_connection at the end of a request whose INSERT failed on a UNIQUE
\* constraint.  After book_detail no cursor is left: db.close() rolls the
\* open transaction back and releases the lock.  After register the cursor
\* is still referenced: db.close() returns, and the transaction and its lock
\* stay.
close_connection(r) ==
    /\ r.pc \in {"close", "close_raised"}
    /\ handlers' = Answered(r)
    /\ lingering' = (r.pc = "close_raised")
    /\ UNCHANGED <<users, reviews, seq, response>>

\* The exception of register's failed INSERT is freed, and with it the frame
\* and the cursor: the closed connection goes away and its lock is released.
\* Nothing bounds the time this takes: the debugger of app.run(debug=True)
\* keeps the frames of an uncaught exception.
cursor_released ==
    /\ lingering
    /\ lingering' = FALSE
    /\ UNCHANGED <<users, reviews, seq, handlers, response>>

\* db.commit() of book_detail: the store after the write statement.
Commit(res) ==
    /\ reviews' = res.reviews
    /\ seq' = res.seq
    /\ response' = Response("book_detail", res.flash)

\* POST /book/<book_id> up to its last read, that of user_review, and the
\* checks of the POST branch that follow it and read no table.
book_detail_read(cu, book_id, form) ==
    /\ Free
    /\ IF book_id \notin books
       THEN /\ response' = Response("book_detail", "Book not found.")
            /\ UNCHANGED handlers
       ELSE IF post_rejection(cu, form) # ""
       THEN /\ response' = Response("book_detail", post_rejection(cu, form))
            /\ UNCHANGED handlers
       ELSE /\ handlers' = handlers (+) SetToBag({
                  [Request EXCEPT !.pc = "post", !.cu = cu, !.book_id = book_id,
                                  !.form = form,
                                  !.user_review = user_review(reviews, cu, book_id)]})
            /\ UNCHANGED response
    /\ UNCHANGED <<users, reviews, seq, lingering>>

\* The write statement of the try block of book_detail, with the user_review
\* read earlier.
book_detail_post(r) ==
    /\ r.pc = "post"
    /\ LET res == post_write(reviews, seq, r.cu, r.book_id, r.form, r.user_review,
                             WriteLocked)
       IN IF res.pc = "commit"
          THEN /\ handlers' = Moved(r, [r EXCEPT !.pc = "commit", !.written = res])
               /\ UNCHANGED response
          ELSE IF res.pc = "close"
          THEN /\ handlers' = Moved(r, [Request EXCEPT !.pc = "close"])
               /\ response' = Response("book_detail", res.flash)
          ELSE /\ handlers' = Answered(r)
               /\ response' = Response("book_detail", res.flash)
    /\ UNCHANGED <<users, reviews, seq, lingering>>

\* A call of get_recommendations in flight, once a write has or has not
\* changed reviews.
Disturbed(req, changed) ==
    IF changed /\ req.pc \in {"global", "reviewed", "query"}
    THEN [req EXCEPT !.undisturbed = FALSE]
    ELSE req

\* The requests of bag B, each as Disturbed leaves it.
DisturbedAll(B, changed) ==
    LET S == BagToSet(B)
        copies(y) == {<<x, i>> \in S \X (1..MaxHandlers) :
                         Disturbed(x, changed) = y /\ i <= B[x]}
    IN [y \in {Disturbed(x, changed) : x \in S} |-> Cardinality(copies(y))]

\* db.commit() of book_detail and the redirect after it.
book_detail_commit(r) ==
    /\ r.pc = "commit"
    /\ Commit(r.written)
    /\ handlers' = DisturbedAll(Answered(r), reviews' # reviews)
    /\ UNCHANGED <<users, lingering>>

\* get_recommendations(user_id) returns out.
Recommended(r, out) ==
    /\ response' = [handler |-> "recommendations", flash |-> "",
                    user_id |-> r.user_id,
                    genres |-> r.favorite_genres,
                    out |-> out,
                    undisturbed |-> r.undisturbed]
    /\ handlers' = Answered(r)

\* GET /recommendations, and any other call of get_recommendations(user_id):
\* its first statement, the genres of the user's ratings >= 4.
recommend_favorite_genres(user_id) ==
    /\ Free
    /\ LET genres == favorite_genres(reviews, user_id)
       IN handlers' = handlers (+) SetToBag({
             [Request EXCEPT !.pc = IF genres = <<>> THEN "global" ELSE "reviewed",
                             !.user_id = user_id,
                             !.favorite_genres = genres]})
    /\ UNCHANGED <<users, reviews, seq, lingering, response>>

\* if not favorite_genres: the global query, which ends the call.
recommend_global(r) ==
    /\ r.pc = "global"
    /\ Recommended(r, Returned(global_top(reviews)))
    /\ UNCHANGED <<users, reviews, seq, lingering>>

\* The second statement: the books the user has reviewed.
recommend_reviewed_books(r) ==
    /\ r.pc = "reviewed"
    /\ handlers' = Moved(r, [r EXCEPT !.pc = "query",
                                      !.reviewed_book_ids =
                                          reviewed_book_ids(reviews, r.user_id)])
    /\ UNCHANGED <<users, reviews, seq, lingering, response>>

\* The third statement, the recommendation query over the genres and the
\* reviewed books read before it, and, when it finds nothing, the fallback
\* statement, whose outcome depends on no row of the store.
recommend_query(r) ==
    /\ r.pc = "query"
    /\ LET found == recommendations(reviews, r.favorite_genres, r.reviewed_book_ids)
       IN Recommended(r, IF found = <<>>
                         THEN exhausted_fallback(reviews, r.reviewed_book_ids)
                         ELSE Returned(found))
    /\ UNCHANGED <<users, reviews, seq, lingering>>

\* Spec: the whole application with one account name, every handler and
\* every interleaving of their statements.
SpecUsernames == {"ann"}

\* The user ids get_recommendations is called with in Spec: the account and
\* an id that is no account.
SpecUserIds == 1..(Cardinality(SpecUsernames) + 1)

Next ==
    \/ \E cu \in CurrentUsers, n \in SpecUsernames : register_check(cu, n)
    \/ \E r \in InFlight : register_insert(r)
    \/ \E r \in InFlight : register_commit(r)
    \/ \E cu \in CurrentUsers, b \in BookIds, f \in FormRatings : book_detail_read(cu, b, f)
    \/ \E r \in InFlight : book_detail_post(r)
    \/ \E r \in InFlight : book_detail_commit(r)
    \/ \E r \in InFlight : close_connection(r)
    \/ cursor_released
    \/ \E u \in SpecUserIds : recommend_favorite_genres(u)
    \/ \E r \in InFlight : recommend_global(r)
    \/ \E r \in InFlight : recommend_reviewed_books(r)
    \/ \E r \in InFlight : recommend_query(r)

Spec == Init /\ [][Next]_vars

----------------------------------------------------------------------------
(* SpecRace: registrations and review submissions alone, with every         *)
(* interleaving of their statements.                                        *)

\* The requests that race: one book, a valid rating.
RaceBookIds == {2, Cardinality(books) + 1}

RaceForms == {[kind |-> "int", value |-> v] : v \in {3, 4}}

NextRace ==
    \/ \E cu \in CurrentUsers, n \in Usernames : register_check(cu, n)
    \/ \E r \in InFlight : register_insert(r)
    \/ \E r \in InFlight : register_commit(r)
    \/ \E cu \in CurrentUsers, b \in RaceBookIds, f \in RaceForms : book_detail_read(cu, b, f)
    \/ \E r \in InFlight : book_detail_post(r)
    \/ \E r \in InFlight : book_detail_commit(r)
    \/ \E r \in InFlight : close_connection(r)
    \/ cursor_released

SpecRace == Init /\ [][NextRace]_vars

----------------------------------------------------------------------------
(* SpecSelector: get_recommendations over the stores that submissions can   *)
(* build, with no write under way.  Both accounts are registered; the       *)
(* reviews table holds one row for each pair of a set of at most MaxShelf   *)
(* (account, book) pairs, rated 3 or 4, with the ids of submitting them in  *)
(* (account, book) order.  The selector reads no id of reviews, so the      *)
(* order of submission is immaterial.                                       *)

\* Cap on the number of rows of the reviews table in SpecSelector.
MaxShelf == 5

ShelfRatings == {3, 4}

Pairs == (1..Cardinality(Usernames)) \X books

\* The position of pair p among the pairs S in (account, book) order.
PairRank(p, S) ==
    Cardinality({q \in S : q[1] < p[1] \/ (q[1] = p[1] /\ q[2] <= p[2])})

InitSelector ==
    /\ users = {[id |-> 1, username |-> "ann"], [id |-> 2, username |-> "bob"]}
    /\ \E S \in SUBSET Pairs :
          /\ Cardinality(S) <= MaxShelf
          /\ \E rate \in [S -> ShelfRatings] :
                reviews = {[id |-> PairRank(p, S), user_id |-> p[1],
                            book_id |-> p[2], rating |-> rate[p]] : p \in S}
          /\ seq = Cardinality(S)
    /\ handlers = EmptyBag
    /\ lingering = FALSE
    /\ response = Response("init_db", "")

\* Each store is queried once, for any one user id.
NextSelector ==
    \/ /\ response.handler = "init_db"
       /\ handlers = EmptyBag
       /\ \E u \in UserIds : recommend_favorite_genres(u)
    \/ \E r \in InFlight : recommend_global(r)
    \/ \E r \in InFlight : recommend_reviewed_books(r)
    \/ \E r \in InFlight : recommend_query(r)

SpecSelector == InitSelector /\ [][NextSelector]_vars

----------------------------------------------------------------------------
(* Properties.  The definitions below state what the specification claims   *)
(* of the handlers; they read the store and the last response and use no    *)
(* query operator of the model except where a claim refers to the selector's*)
(* own choice of genres.                                                    *)

\* The last response is that of get_recommendations.
Completed == response.handler = "recommendations"

\* The last response is that of a call of get_recommendations during which no
\* write changed reviews: the result of the selector in one store state.
Served == Completed /\ response.undisturbed

Caller == response.user_id

ServedRows == response.out.rows

ServedIds == {ServedRows[i].id : i \in DOMAIN ServedRows}

\* The user has at least one rating >= 4.
HasHigh(u) == \E r \in reviews : r.user_id = u /\ r.rating >= 4

\* The books the user has a rating for, of any score.
RatedBy(u) == {b \in books : \E r \in reviews : r.user_id = u /\ r.book_id = b}

\* The mean of all users' ratings of book b, as the fraction sum / n: the
\* ratings are counted score by score.
Mean(b) ==
    LET of == {r \in reviews : r.book_id = b}
        scored(v) == Cardinality({r \in of : r.rating = v})
    IN [n |-> Cardinality(of),
        sum |-> scored(1) + 2 * scored(2) + 3 * scored(3) + 4 * scored(4) + 5 * scored(5)]

\* Mean a is at least mean b, a book without ratings being below every rated one.
MeanGeq(a, b) == b.n = 0 \/ (a.n > 0 /\ a.sum * b.n >= b.sum * a.n)

MeanSame(a, b) == MeanGeq(a, b) /\ MeanGeq(b, a)

\* The genres the selector took as the user's affinity genres.
AffinityGenres(u) == Range(response.genres)

\* The candidate pool of the affinity branch.
Candidates(u) == {b \in books : genre(b) \in AffinityGenres(u) /\ b \notin RatedBy(u)}

AffinityBranch(u) == HasHigh(u) /\ Candidates(u) # {}

ExhaustedBranch(u) == HasHigh(u) /\ Candidates(u) = {}

Min2(a, b) == IF a < b THEN a ELSE b

\* Each row carries the mean of its book.
MeansReported(rows) ==
    \A i \in DOMAIN rows :
        LET m == Mean(rows[i].id)
        IN rows[i].avg_rating.n = m.n /\ rows[i].avg_rating.sum = m.sum

\* rows lists, without repetition, the first Min2(5, |pool|) books of pool in
\* descending order of mean, each with its mean.
TopByMean(rows, pool) ==
    /\ Len(rows) = Min2(5, Cardinality(pool))
    /\ MeansReported(rows)
    /\ \A i \in DOMAIN rows : rows[i].id \in pool
    /\ \A i, j \in DOMAIN rows : i < j =>
          /\ rows[i].id # rows[j].id
          /\ MeanGeq(rows[i].avg_rating, rows[j].avg_rating)
    /\ \A b \in pool \ {rows[i].id : i \in DOMAIN rows} :
          LET m == Mean(b)
          IN \A i \in DOMAIN rows : MeanGeq(rows[i].avg_rating, m)

\* C1: after get_recommendations for a user with a rating >= 4 (the affinity
\* branch and the exhausted-affinity fallback), no returned row is a book
\* the user has rated.
C1_NoRatedBookReturned ==
    (Served /\ HasHigh(Caller)) => ServedIds \cap RatedBy(Caller) = {}

\* C1 witness: the affinity branch returned several books to a user who has
\* rated several books, one of them low.
C1_Witness ==
    /\ Served /\ AffinityBranch(Caller)
    /\ Len(ServedRows) >= 2
    /\ \E r \in reviews : r.user_id = Caller /\ r.rating < 4
    /\ Cardinality(RatedBy(Caller)) >= 2

\* C2: when the user has a rating >= 4 and every book of the affinity genres
\* is rated by the user, get_recommendations returns the up-to-5 books the
\* user has not rated in descending order of mean rating.
C2_ExhaustedFallbackReturnsUnratedTop ==
    (Served /\ ExhaustedBranch(Caller)) =>
        /\ response.out.status = "ok"
        /\ TopByMean(ServedRows, books \ RatedBy(Caller))

\* C3: get_recommendations ends in no error for any user id (the store of the
\* model never fails a read): unknown user, no ratings, no rating >= 4, or
\* affinity genres without candidates.
C3_NoErrorOnNoData == Served => response.out.status = "ok"

\* C4: in every branch the returned sequence has at most 5 rows and no book
\* twice.
C4_AtMostFiveDistinct ==
    Completed =>
        /\ Len(ServedRows) <= 5
        /\ \A i, j \in DOMAIN ServedRows : i # j => ServedRows[i].id # ServedRows[j].id

\* C4 witness: a call returned exactly 5 of the 6 books.
C4_Witness == Served /\ Len(ServedRows) = 5 /\ Cardinality(ServedIds) = 5

\* C5: for a user without a rating >= 4 the result is the first 5 books of the
\* whole catalog in descending order of mean rating, unrated books after every
\* rated one, the user's own rated books not excluded.
C5_GlobalFallback ==
    (Served /\ ~HasHigh(Caller)) =>
        /\ response.out.status = "ok"
        /\ TopByMean(ServedRows, books)

\* C5 witness: a user with only low ratings is served a book they rated, ahead
\* of a book nobody rated.
C5_Witness ==
    /\ Served /\ ~HasHigh(Caller)
    /\ ServedIds \cap RatedBy(Caller) # {}
    /\ \E i, j \in DOMAIN ServedRows :
          i < j /\ Mean(ServedRows[i].id).n > 0 /\ Mean(ServedRows[j].id).n = 0
    /\ \E b \in books \ ServedIds : Mean(b).n = 0
    /\ \E b \in ServedIds : \E r, q \in reviews :
          r.book_id = b /\ q.book_id = b /\ r.rating # q.rating

\* The number of the user's ratings >= 4 of books of genre g.
HighCount(u, g) ==
    Cardinality({r \in reviews : r.user_id = u /\ r.rating >= 4 /\ genre(r.book_id) = g})

\* The genres among the user's ratings >= 4.
HighGenres(u) == {g \in {genre(b) : b \in books} : HighCount(u, g) > 0}

\* C6: for a user with a rating >= 4 the selector's affinity genres are
\* min(3, k) distinct genres among the k genres of the user's own ratings
\* >= 4, none with a lower count than a genre left out, and the returned
\* books are exactly the unrated books of those genres.
C6_TopAffinityGenres ==
    (Served /\ HasHigh(Caller)) =>
        LET top == response.genres
            G == Range(top)
            K == HighGenres(Caller)
        IN /\ Len(top) = Min2(3, Cardinality(K))
           /\ Cardinality(G) = Len(top)
           /\ G \subseteq K
           /\ \A g \in G : \A h \in K \ G : HighCount(Caller, g) >= HighCount(Caller, h)
           /\ response.out.status = "ok" =>
                 ServedIds = {b \in books : genre(b) \in G /\ b \notin RatedBy(Caller)}

\* C6 witness: a call for a user whose ratings >= 4 span four genres, one of
\* them with two such ratings.
C6_Witness ==
    /\ Served
    /\ Cardinality(HighGenres(Caller)) = 4
    /\ \E g \in HighGenres(Caller) : HighCount(Caller, g) = 2

\* Row x comes before row y: higher mean, or the same mean and a title that
\* sorts first.
MeanThenTitle(x, y) ==
    \/ MeanGeq(x.avg_rating, y.avg_rating) /\ ~MeanSame(x.avg_rating, y.avg_rating)
    \/ MeanSame(x.avg_rating, y.avg_rating) /\ TextLess(title(x.id), title(y.id))

\* C7: in the affinity branch the result is the candidate pool (unrated books
\* of the affinity genres, unrated-by-anyone ones included), cut to 5, in
\* descending order of mean and, for equal means, ascending order of title.
C7_AffinityOrder ==
    (Served /\ AffinityBranch(Caller)) =>
        /\ response.out.status = "ok"
        /\ Len(ServedRows) = Min2(5, Cardinality(Candidates(Caller)))
        /\ ServedIds \subseteq Candidates(Caller)
        /\ MeansReported(ServedRows)
        /\ \A i, j \in DOMAIN ServedRows :
              i < j => MeanThenTitle(ServedRows[i], ServedRows[j])
        /\ \A b \in Candidates(Caller) \ ServedIds :
              \A i \in DOMAIN ServedRows :
                 MeanThenTitle(ServedRows[i], [id |-> b, avg_rating |-> Mean(b)])

\* C7 witness: two returned candidates have the same mean from other users'
\* ratings, the one with the larger id first.
C7_Witness ==
    /\ Served /\ AffinityBranch(Caller)
    /\ \E i, j \in DOMAIN ServedRows :
          /\ i < j
          /\ ServedRows[i].avg_rating.n > 0
          /\ MeanSame(ServedRows[i].avg_rating, ServedRows[j].avg_rating)
          /\ ServedRows[i].id > ServedRows[j].id

\* C9: a call of get_recommendations that follows a call for the same user,
\* with no write to reviews from the first statement of the earlier call to
\* the end of the later one, returns a sequence, as the earlier call did, and
\* the two sequences are the same rows in the same order, in every branch.
\* (A submission to book_detail in between would have replaced the response.)
C9_RepeatedCallSameResult ==
    [][(/\ Served
        /\ response'.handler = "recommendations"
        /\ response'.undisturbed
        /\ response'.user_id = response.user_id) =>
           /\ response.out.status = "ok"
           /\ response'.out.status = "ok"
           /\ response'.out.rows = response.out.rows]_vars

\* A request of book_detail that must leave the store alone: no logged-in
\* user, no such book, or a 'rating' field that is absent, not an integer or
\* outside 1..5.
Rejected(cu, b, f) ==
    \/ ~cu.is_authenticated
    \/ b \notin books
    \/ f.kind # "int"
    \/ f.value < 1
    \/ f.value > 5

\* C10: every stored rating is an integer in 1..5, and every step that
\* changes the rows of reviews is the commit of a submission that is not
\* rejected.
C10_RatingsInRange ==
    /\ [](\A r \in reviews : r.rating \in 1..5)
    /\ [][\/ reviews' = reviews
          \/ \E r \in InFlight :
                /\ ~Rejected(r.cu, r.book_id, r.form)
                /\ book_detail_commit(r)]_vars

\* C10 witness: with ratings stored, a submission was turned down for its
\* rating.
C10_Witness ==
    /\ reviews # {}
    /\ response.handler = "book_detail"
    /\ response.flash \in {"Rating must be between 1 and 5.", "TypeError"}

\* The account of submission r has a rating of the book of r in the store.
AlreadyRated(r) == \E x \in reviews : x.user_id = r.cu.id /\ x.book_id = r.book_id

\* The number of submissions of bag B that have not come to their end: the
\* requests of book_detail before their write statement or their commit.
Submitting(B) ==
    BagCardinality([x \in {y \in BagToSet(B) : y.pc \in {"post", "commit"}} |-> B[x]])

\* C8: the store never holds two rows of reviews for one (account, book)
\* pair, however the requests interleave; and a submission that comes to its
\* end (at its commit, or at its write statement when that fails) while the
\* store holds a rating of its account for its book leaves that rating with
\* the submitted score and adds no row.
C8_OneReviewPerUserAndBook ==
    /\ [](\A r, q \in reviews :
             (r.user_id = q.user_id /\ r.book_id = q.book_id) => r = q)
    /\ [][\A r \in InFlight :
             (/\ r.pc \in {"post", "commit"}
              /\ book_detail_post(r) \/ book_detail_commit(r)
              /\ Submitting(handlers') < Submitting(handlers)
              /\ AlreadyRated(r)) =>
                 /\ Cardinality(reviews') = Cardinality(reviews)
                 /\ \E x \in reviews' :
                       /\ x.user_id = r.cu.id
                       /\ x.book_id = r.book_id
                       /\ x.rating = r.form.value]_vars
====
